---- MODULE Spec2Model ----
(***************************************************************************)
(* Model of the pretty slog handler of FurmanovVitaliy/logger              *)
(* (src/pretty_handler.go, src/logger.go).                                 *)
(*                                                                         *)
(* Texts are sequences of one-byte characters.  Three specifications are  *)
(* given over the same variables:                                          *)
(*   SpecWrap  the text wrapper (splitText / cutString) run step by step   *)
(*   Spec      the handler used from one goroutine                         *)
(*   SpecConc  Handle called from several goroutines                       *)
(***************************************************************************)
EXTENDS Integers, Sequences, FiniteSets, TLC

(***************************************************************************)
(* Bounds of the text-wrapper specification.                               *)
(***************************************************************************)
MaxTextLen == 3
MaxBudget == 3

VARIABLES
    tWidth,       \* package variable tWidth
    lWidth,       \* package variable lWidth
    sWidth,       \* package variable sWidth
    firstLine,    \* package variable firstLine
    lastLine,     \* package variable lastLine
    activeIndent, \* package variable activeIndent: the depths mapped to true
    handlers,     \* the prettyHandler values made so far, by creation order
    mutex,        \* for each sync.Mutex, the goroutine holding it or "free"
    sink,         \* the sink: the chunks of the Write calls in arrival order
    frame,        \* for each goroutine, the frame of its Handle call
    last,         \* the last finished call (WithGroup, WithAttrs or a log call) and its result
    memo,         \* the first finished log call, when it is kept
    nCalls,       \* number of log calls started
    crashed,      \* a fault in Handle has ended the process
    wText,      \* splitText: text (str := []byte(text))
    wMax,       \* splitText: maxLength
    wIndex,     \* splitText: index
    wResult,    \* splitText: result
    wpc         \* splitText: "loop" while in the for loop, "done" after return

wvars == <<wText, wMax, wIndex, wResult, wpc>>

gvars == <<tWidth, lWidth, sWidth, firstLine, lastLine, activeIndent>>
hvars == <<handlers, mutex, sink, frame, last, memo, nCalls, crashed>>

vars == <<tWidth, lWidth, sWidth, firstLine, lastLine, activeIndent, handlers, mutex,
          sink, frame, last, memo, nCalls, crashed, wText, wMax, wIndex, wResult, wpc>>

(***************************************************************************)
(* Bytes.  The five delimiters of cutString and one ordinary byte.        *)
(***************************************************************************)
Delims == {" ", "/", ".", ",", "\n"}
Chars == {"a"} \cup Delims

RECURSIVE SeqsUpTo(_, _)
SeqsUpTo(S, n) ==
    IF n = 0 THEN {<<>>}
    ELSE LET shorter == SeqsUpTo(S, n - 1)
         IN  shorter \cup {Append(s, c) : s \in {t \in shorter : Len(t) = n - 1}, c \in S}

Texts == SeqsUpTo(Chars, MaxTextLen)
Budgets == (-1) .. MaxBudget

RECURSIVE Concat(_)
Concat(segs) ==
    IF segs = <<>> THEN <<>> ELSE Head(segs) \o Concat(Tail(segs))

MaxOf(S) == CHOOSE x \in S : \A y \in S : y <= x

\* bytes.LastIndexByte: 0-based index of the last c in s, -1 when absent
LastIndexByte(s, c) ==
    LET hits == {i \in 0 .. Len(s) - 1 : s[i + 1] = c}
    IN  IF hits = {} THEN -1 ELSE MaxOf(hits)

\* a plausible slip: break after the first delimiter of the window
cutString_FirstDelimiter(buf, max, index) ==
    IF max <= 0 \/ index >= Len(buf) THEN Len(buf)
    ELSE LET end == index + max
         IN  IF end >= Len(buf) THEN Len(buf)
             ELSE LET hits == {k \in index + 1 .. end : buf[k] \in Delims}
                  IN  IF hits = {} THEN end ELSE CHOOSE k \in hits : \A j \in hits : k <= j

\* a plausible slip: break at the delimiter instead of after it
cutString_AtDelimiter(buf, max, index) ==
    IF max <= 0 \/ index >= Len(buf) THEN Len(buf)
    ELSE LET end == index + max
         IN  IF end >= Len(buf) THEN Len(buf)
             ELSE LET win == SubSeq(buf, index + 1, end)
                      t == MaxOf({LastIndexByte(win, d) : d \in Delims} \cup {-1})
                  IN  IF t = -1 THEN end ELSE index + t

cutString(buf, max, index) ==
    IF max <= 0 \/ index >= Len(buf) THEN Len(buf)
    ELSE LET end == index + max
         IN  IF end >= Len(buf) THEN Len(buf)
             ELSE LET win == SubSeq(buf, index + 1, end)
                      spaceIndex == LastIndexByte(win, " ")
                      slashIndex == LastIndexByte(win, "/")
                      dotIndex == LastIndexByte(win, ".")
                      comaIndex == LastIndexByte(win, ",")
                      enterIndex == LastIndexByte(win, "\n")
                      t == MaxOf({spaceIndex, slashIndex, dotIndex, comaIndex, enterIndex, -1})
                  IN  IF t = -1 THEN end ELSE index + t + 1

\* a plausible slip: the delimiter a segment ends with is trimmed away
Slice_TrimBreak(str, from, to) ==
    IF to > from /\ str[to] \in Delims /\ to < Len(str)
    THEN SubSeq(str, from + 1, to - 1)
    ELSE SubSeq(str, from + 1, to)

\* str[index:i]
Slice(str, from, to) == SubSeq(str, from + 1, to)

\* splitText as a function: the segments from index on
RECURSIVE splitFrom(_, _, _)
splitFrom(str, maxLength, index) ==
    LET i == cutString(str, maxLength, index)
    IN  IF i >= Len(str) THEN <<Slice(str, index, i)>>
        ELSE <<Slice(str, index, i)>> \o splitFrom(str, maxLength, i)

splitText(text, maxLength) == splitFrom(text, maxLength, 0)

(***************************************************************************)
(* Records, attributes and handlers.                                       *)
(***************************************************************************)
LevelDebug == -4
LevelInfo == 0

\* slog.String(k, v)
StringAttr(k, v) == [kind |-> "String", key |-> k, val |-> v, kids |-> <<>>]

\* slog.GroupValue: empty groups are removed when a group value is built
GroupValue(as) ==
    SelectSeq(as, LAMBDA a : ~(a.kind = "Group" /\ a.kids = <<>>))

\* slog.Group(k, as...)
GroupAttr(k, as) == [kind |-> "Group", key |-> k, val |-> <<>>, kids |-> GroupValue(as)]

\* attrWithInfo{attr, extraLine, firstChild, innerChild, lastChild}
attrWithInfo(attr, extraLine, firstChild, innerChild, lastChild) ==
    [attr |-> attr, extraLine |-> extraLine, firstChild |-> firstChild,
     innerChild |-> innerChild, lastChild |-> lastChild]

\* groupOrAttrs{group: name} and groupOrAttrs{attrs: attrs}
GroupGoa(name) == [group |-> name, attrs |-> <<>>]
AttrsGoa(attrs) == [group |-> "", attrs |-> attrs]

\* byte length of a key
KeyLen(k) ==
    CASE k = "" -> 0
      [] k \in {"k", "g", "e"} -> 1
      [] k \in {"id", "op", "in"} -> 2
      [] k \in {"req", "out", "url"} -> 3
      [] k = "INFO" -> 4
      [] k \in {"GROUP", "DEBUG"} -> 5
      [] k = "source" -> 6

\* bytes the colour escape sequences add to a colourized key
ColorLen == 9

\* len of %q of a text: the quotes, and two bytes for an escaped newline
RECURSIVE QuotedLen(_)
QuotedLen(v) ==
    IF v = <<>> THEN 2
    ELSE (IF Head(v) = "\n" THEN 2 ELSE 1) + QuotedLen(Tail(v))

\* Go's integer division truncates toward zero
TruncDiv(a, b) == IF a >= 0 THEN a \div b ELSE -((-a) \div b)

(***************************************************************************)
(* Layout.  A rendered line is a record of what decides its bytes; the     *)
(* package-level layout variables are passed as g = [lWidth, firstLine,    *)
(* lastLine, activeIndent], activeIndent being the set of depths mapped to *)
(* true.                                                                   *)
(***************************************************************************)
\* bytes of a colour escape sequence pair that runewidth counts as columns:
\* "[92m" and "[0m" (the two ESC bytes have no width)
EscapeWidth == 7

\* columns of the level label: the emoji, a space and the level's name
LabelWidth(key) == 3 + KeyLen(key)

\* appendAttr: columns runewidth counts for the string handed to alignValues,
\* len of %q of the value of a
ValueLen(a, val) == QuotedLen(val)

\* by the form of the line
TextOf(form, a, val) ==
    CASE form = "first" -> 1 + LabelWidth(a.attr.key) + EscapeWidth + 2 + ValueLen(a, val) + 1
      [] form = "group" -> 4 + KeyLen(a.attr.key) + EscapeWidth + 2 + ValueLen(a, val) + 1
      [] form = "bracket" -> 1 + KeyLen(a.attr.key) + EscapeWidth + 2 + ValueLen(a, val) + 2
      [] form = "item" -> KeyLen(a.attr.key) + EscapeWidth + 2 + ValueLen(a, val)
      [] form = "header" -> 3 + KeyLen(a.attr.key) + EscapeWidth + 1
      [] OTHER -> 0

Line(form, gl, gr, a, key, val, lvl, al, extra) ==
    [form |-> form, gl |-> gl, gr |-> gr, key |-> key, val |-> val, lvl |-> lvl,
     text |-> TextOf(form, a, val),
     firstChild |-> a.firstChild, innerChild |-> a.innerChild, lastChild |-> a.lastChild,
     mark |-> al.mark, branch |-> al.branch, bars |-> al.bars, fill |-> al.fill,
     width |-> al.width, extra |-> extra, nl |-> 0]

\* addIndentSpaces: the columns below parts that carry a bar
addIndentSpaces(parts, active) == {i \in 0 .. parts - 1 : i \in active}

\* alignValues: its writes to activeIndent
alignIndent(active, identLevel, a, key) ==
    LET cleared == IF ~key /\ a.lastChild /\ a.innerChild
                   THEN active \ {identLevel} ELSE active
    IN  IF key /\ ~a.lastChild /\ a.innerChild THEN cleared \cup {identLevel} ELSE cleared

\* alignValues: the branch glyphs put before the text
alignBranch(identLevel, a, wraped) ==
    CASE wraped /\ identLevel > 0 /\ a.lastChild -> "blank"
      [] wraped /\ identLevel > 0 /\ ~a.lastChild -> "bar"
      [] a.firstChild /\ a.lastChild -> "corner"
      [] a.firstChild -> "tee"
      [] a.lastChild -> "corner"
      [] a.innerChild -> "tee"
      [] OTHER -> IF identLevel > 1 THEN "tee" ELSE "none"

\* alignValues, lastLine: r[:center] + text1 + r[center+len(text):] faults when
\* the repeat count lWidth-7 is negative or the slice bounds leave r
lastLineFaults(lw, valLen) ==
    LET rLen == lw - 7
        textLen == valLen + 10
        center == TruncDiv(rLen - textLen, 2)
    IN  rLen < 0 \/ center < 0 \/ center + textLen > rLen

\* alignValues(text, identLevel, spacer, ident, center, a, key, wraped)
alignValues(identLevel, center, a, key, wraped, g) ==
    [bars |-> IF identLevel > 1 THEN addIndentSpaces(identLevel, g.activeIndent) ELSE {},
     activeIndent |-> alignIndent(g.activeIndent, identLevel, a, key),
     mark |-> IF ~g.firstLine /\ ~g.lastLine
              THEN (IF ~key /\ wraped THEN "blank" ELSE "arrow")
              ELSE IF g.firstLine THEN "rule" ELSE "none",
     branch |-> alignBranch(identLevel, a, wraped),
     fill |-> IF center /\ ~g.lastLine THEN "center"
              ELSE IF g.firstLine THEN "first"
              ELSE IF g.lastLine THEN "source" ELSE "right",
     width |-> g.lWidth,
     panic |-> ~(center /\ ~g.lastLine) /\ ~g.firstLine /\ g.lastLine
               /\ lastLineFaults(g.lWidth, Len(a.attr.val))]

\* the continuation placeholder that stands for the key on wrapped lines
sameSymbol == "placeholder"

\* wrapLongValue: the annotation put at the right of segment i (0-based) of n
wrapNote(lw, i, n) ==
    IF lw > 60
    THEN (IF i = 0 THEN "line" ELSE IF i = 1 THEN "wrap"
          ELSE IF i = n - 1 /\ i > 1 THEN "close" ELSE "mid")
    ELSE ""

\* wrapLongValue: the budget handed to splitText
wrapBudget(lw, keyLen, lvl) ==
    LET vMaxL == IF lw < 60 THEN lw - keyLen - 5 - lvl * 10 - 35
                 ELSE lw - keyLen - 5 - lvl * 10 - 20
    IN  IF vMaxL < 0 THEN 1 ELSE vMaxL

\* a plausible slip: the wrapper ends every segment, the last one too, with
\* a newline
wrapLongValue_NewlineAfterEach(a, lvl, g) ==
    LET vals == splitText(a.attr.val, wrapBudget(g.lWidth, KeyLen(a.attr.key), lvl))
        al0 == alignValues(lvl, FALSE, a, FALSE, FALSE, g)
        g1 == [g EXCEPT !.activeIndent = al0.activeIndent]
        al1 == alignValues(lvl, FALSE, a, FALSE, TRUE, g1)
    IN  [lines |-> [i \in 1 .. Len(vals) |->
                      [Line("item", "bar", "bar", a, IF i = 1 THEN a.attr.key ELSE sameSymbol,
                            vals[i], lvl, IF i = 1 THEN al0 ELSE al1,
                            wrapNote(g.lWidth, i - 1, Len(vals)))
                       EXCEPT !.text = MaxOf({KeyLen(a.attr.key), 1}) + EscapeWidth + 1
                                       + QuotedLen(vals[i]),
                              !.nl = 1]],
         activeIndent |-> IF Len(vals) > 1 THEN al1.activeIndent ELSE al0.activeIndent,
         panic |-> al0.panic \/ (Len(vals) > 1 /\ al1.panic)]

\* wrapLongValue(buf, a, key, value, lvl)
wrapLongValue(a, lvl, g) ==
    LET vals == splitText(a.attr.val, wrapBudget(g.lWidth, KeyLen(a.attr.key), lvl))
        al0 == alignValues(lvl, FALSE, a, FALSE, FALSE, g)
        g1 == [g EXCEPT !.activeIndent = al0.activeIndent]
        al1 == alignValues(lvl, FALSE, a, FALSE, TRUE, g1)
    IN  [lines |-> [i \in 1 .. Len(vals) |->
                      [Line("item", "bar", "bar", a, IF i = 1 THEN a.attr.key ELSE sameSymbol,
                            vals[i], lvl, IF i = 1 THEN al0 ELSE al1,
                            wrapNote(g.lWidth, i - 1, Len(vals)))
                       EXCEPT !.text = MaxOf({KeyLen(a.attr.key), 1}) + EscapeWidth + 1
                                       + QuotedLen(vals[i]),
                              !.nl = IF i - 1 < Len(vals) - 1 THEN 1 ELSE 0]],
         activeIndent |-> IF Len(vals) > 1 THEN al1.activeIndent ELSE al0.activeIndent,
         panic |-> al0.panic \/ (Len(vals) > 1 /\ al1.panic)]

\* byte lengths that decide whether the timestamp is kept on the top border:
\* len(msg.String()) and len(timestamp)
LevelKeyLen == 19
TimestampLen == 22
\* columns of the timestamp "[<clock> Jan _2 15:04:05]"
TimestampWidth == 20

\* a plausible slip: the test for room is inverted
appendInRight_Inverted(targetLen, textLen, tl) ==
    [placed |-> targetLen < textLen + 5 \/ tl = 0, from |-> targetLen - tl - 5]

\* appendInRight(target, text): whether text is put into target, and the
\* byte of target it starts after; targetLen and textLen are byte lengths,
\* tl is the width of text in columns
appendInRight(targetLen, textLen, tl) ==
    [placed |-> ~(targetLen < textLen + 5 \/ tl = 0), from |-> targetLen - tl - 5]

\* the top border after alignValues: the bytes of its text (the two rule
\* glyphs, the escape sequences and the emoji take more bytes than columns,
\* and so does the narrow space that makes an odd width even) and of the
\* whole line, filled to lw columns
topBorderBytes(counted, lw) ==
    LET odd == counted % 2
        textBytes == counted + 8 + 3 * odd
    IN  [text |-> textBytes, line |-> textBytes + MaxOf({0, lw - (counted + odd)})]

\* the top border's extraLine as appendInRight leaves it: "" when there is
\* none or no room, "clipped" when it overwrites bytes of the text
topBorderExtra(extraLine, b) ==
    IF extraLine = "" THEN ""
    ELSE IF ~appendInRight(b.line, TimestampLen, TimestampWidth).placed THEN ""
    ELSE IF appendInRight(b.line, TimestampLen, TimestampWidth).from < b.text THEN "clipped"
    ELSE extraLine

\* fmt.Append(buf, "\n"): the newline ends the last line appended so far
Ended(l) == [l EXCEPT !.nl = @ + 1]
newline(res) ==
    [res EXCEPT !.lines = [i \in 1 .. Len(@) |-> IF i = Len(@) THEN Ended(@[i]) ELSE @[i]]]

\* appendAttr, case slog.KindString: the switch on the kind of line
appendStringSwitch(a, indentLevel, g) ==
    LET groupLine == a.attr.key = "GROUP"
        strLen == ColorLen + KeyLen(a.attr.key) + 2 + QuotedLen(a.attr.val)
        long == strLen > g.lWidth - 35 - indentLevel * 10
        one(form, gl, gr, center, extra) ==
            LET al == alignValues(indentLevel, center, a, FALSE, FALSE, g)
            IN  [lines |-> <<Line(form, gl, gr, a, a.attr.key, a.attr.val, indentLevel, al, extra)>>,
                 activeIndent |-> al.activeIndent, panic |-> al.panic]
    IN  CASE g.firstLine ->
                 one("first", "top-left", "top-right", FALSE,
                     topBorderExtra(a.extraLine,
                                    topBorderBytes(2 + TextOf("first", a, a.attr.val), g.lWidth)))
          [] ~g.firstLine /\ groupLine -> one("group", "tee", "bar", FALSE, a.extraLine)
          [] ~g.firstLine /\ ~groupLine /\ g.lastLine -> one("last", "bottom-left", "bottom-right", TRUE, "")
          [] ~g.firstLine /\ ~groupLine /\ ~g.lastLine
               /\ (a.firstChild \/ a.innerChild \/ a.lastChild) ->
                 IF long THEN wrapLongValue(a, indentLevel, g)
                 ELSE one("item", "bar", "bar", FALSE, a.extraLine)
          [] OTHER ->
                 IF long THEN wrapLongValue(a, indentLevel, g)
                 ELSE one("bracket", "tee", "bar", FALSE, a.extraLine)

\* appendAttr, case slog.KindString
appendString(a, indentLevel, g) == newline(appendStringSwitch(a, indentLevel, g))

\* a plausible slip: the last of several children loses its inner tag
childInfo_LastAlone(ga, i, n) ==
    IF i = 0 THEN attrWithInfo(ga, "", TRUE, FALSE, i = n - 1)
    ELSE attrWithInfo(ga, "", FALSE, i # n - 1, i = n - 1)

\* a plausible slip: an only child is not recognised as the last one
childInfo_OnlyChildNotLast(ga, i, n) ==
    IF i = 0 THEN attrWithInfo(ga, "", TRUE, FALSE, FALSE)
    ELSE attrWithInfo(ga, "", FALSE, TRUE, i = n - 1)

\* appendAttr, case slog.KindGroup: the flags of child i (0-based) of n
childInfo(ga, i, n) ==
    IF i = 0 THEN attrWithInfo(ga, "", TRUE, FALSE, i = n - 1)
    ELSE attrWithInfo(ga, "", FALSE, TRUE, i = n - 1)

RECURSIVE appendAttr(_, _, _)
RECURSIVE appendChildren(_, _, _, _)

\* appendAttr, case slog.KindGroup: the loop over the children from child i on
appendChildren(attrs, i, indentLevel, g) ==
    IF i >= Len(attrs) THEN [lines |-> <<>>, activeIndent |-> g.activeIndent, panic |-> FALSE]
    ELSE LET one == appendAttr(childInfo(attrs[i + 1], i, Len(attrs)), indentLevel, g)
         IN  IF one.panic THEN one
             ELSE LET rest == appendChildren(attrs, i + 1, indentLevel,
                                             [g EXCEPT !.activeIndent = one.activeIndent])
                  IN  [lines |-> one.lines \o rest.lines,
                       activeIndent |-> rest.activeIndent, panic |-> rest.panic]

\* appendAttr(buf, a, indentLevel): the lines appended to buf, activeIndent
\* afterwards, and whether the call faulted
appendAttr(a, indentLevel, g) ==
    CASE a.attr.kind = "Empty" ->
             [lines |-> <<>>, activeIndent |-> g.activeIndent, panic |-> FALSE]
      [] a.attr.kind = "String" -> appendString(a, indentLevel, g)
      [] a.attr.kind = "Group" ->
             IF Len(a.attr.kids) = 0
             THEN [lines |-> <<>>, activeIndent |-> g.activeIndent, panic |-> FALSE]
             ELSE LET child == a.firstChild \/ a.innerChild \/ a.lastChild
                      center == ~a.firstChild /\ ~a.innerChild /\ a.lastChild
                      al == alignValues(indentLevel, center, a, TRUE, FALSE, g)
                      header == Ended(Line("header", IF child THEN "bar" ELSE "tee", "bar", a,
                                           a.attr.key, <<>>, indentLevel, al, a.extraLine))
                      rest == appendChildren(a.attr.kids, 0, indentLevel + 1,
                                             [g EXCEPT !.activeIndent = al.activeIndent])
                  IN  IF al.panic
                      THEN [lines |-> <<header>>, activeIndent |-> al.activeIndent, panic |-> TRUE]
                      ELSE [lines |-> <<header>> \o rest.lines,
                            activeIndent |-> rest.activeIndent, panic |-> rest.panic]

(***************************************************************************)
(* Handle, statement by statement.  f is the frame of one call: its        *)
(* handler h, record r, the width tw the terminal probe returns to it, its *)
(* position pc and its locals.  G is the record of the package-level       *)
(* layout variables.  HandleStep gives the frame and the variables after   *)
(* the statements at f.pc; a fault (a Go panic) ends the call at pc        *)
(* "panic".                                                                *)
(***************************************************************************)
\* the message attribute of the top border: key is the level label
LevelLabel(level) == IF level = LevelDebug THEN "DEBUG" ELSE "INFO"

\* byte length of the file:line of the call site
PathLen == 30

\* runewidth.TruncateLeft(path, w, "..."): length of the result
TruncateLeftLen(pathLen, w) == IF pathLen <= w THEN 3 ELSE 3 + pathLen - w

\* Handle: the widths (lines 75-89)
layoutWidths(level, G) ==
    IF G.tWidth < 159 THEN [G EXCEPT !.lWidth = G.tWidth]
    ELSE IF level < LevelInfo
    THEN (IF 160 <= G.tWidth /\ G.tWidth <= 180
          THEN [G EXCEPT !.lWidth = 100, !.sWidth = 50]
          ELSE IF 179 <= G.tWidth /\ G.tWidth <= 200
          THEN [G EXCEPT !.sWidth = 75, !.lWidth = G.tWidth - 75 - 5]
          ELSE [G EXCEPT !.lWidth = G.tWidth \div 2, !.sWidth = 100])
    ELSE G

\* a plausible slip: the trailing groups are kept
trimGoas_None(goas, numAttrs) == goas

\* Handle: groups at the end of the list are removed when the record has no
\* attributes (lines 90-96)
RECURSIVE trimGoas(_, _)
trimGoas(goas, numAttrs) ==
    IF numAttrs = 0 /\ Len(goas) > 0 /\ goas[Len(goas)].group # ""
    THEN trimGoas(SubSeq(goas, 1, Len(goas) - 1), numAttrs)
    ELSE goas

\* the layout variables as appendAttr reads them
LayoutOf(G) ==
    [lWidth |-> G.lWidth, firstLine |-> G.firstLine, lastLine |-> G.lastLine,
     activeIndent |-> G.activeIndent]

\* a plausible slip: the later lines are put before the earlier ones
Joined_Swapped(one, rest) ==
    [lines |-> rest.lines \o one.lines, activeIndent |-> rest.activeIndent, panic |-> rest.panic]

\* the lines of two consecutive appends, and the state after the second
Joined(one, rest) ==
    [lines |-> one.lines \o rest.lines, activeIndent |-> rest.activeIndent, panic |-> rest.panic]

\* nothing appended
NoLines(g) == [lines |-> <<>>, activeIndent |-> g.activeIndent, panic |-> FALSE]

\* Handle: the loop over goas (lines 117-126), from entry i (1-based) and
\* attribute j (1-based) of it; one is what the entry at <<i, j>> appended
RECURSIVE appendGoas(_, _, _, _)
RECURSIVE appendGoasNext(_, _, _, _, _)
\* slog.String("GROUP", goa.group): the name of the group as the text of a value
NameText(group) == IF group = "" THEN <<>> ELSE <<group>>

appendGoasNext(one, goas, i, j, g) ==
    IF one.panic THEN one
    ELSE Joined(one, appendGoas(goas,
                                IF j > Len(goas[i].attrs) THEN i + 1 ELSE i,
                                IF j > Len(goas[i].attrs) THEN 1 ELSE j + 1,
                                [g EXCEPT !.activeIndent = one.activeIndent]))

appendGoas(goas, i, j, g) ==
    IF i > Len(goas) THEN NoLines(g)
    ELSE appendGoasNext(
             IF goas[i].group = "" /\ j > Len(goas[i].attrs) THEN NoLines(g)
             ELSE appendAttr(attrWithInfo(IF goas[i].group # ""
                                          THEN StringAttr("GROUP", NameText(goas[i].group))
                                          ELSE goas[i].attrs[j],
                                          "", FALSE, FALSE, FALSE), 0, g),
             goas, i, j, g)

\* addSysInfo: the tier (row) of the panel for a side width
panelRow(wWidth) ==
    IF wWidth > 80 THEN 3 ELSE IF wWidth > 74 THEN 2 ELSE IF wWidth > 49 THEN 1 ELSE 0

PanelMinLines == 5
PanelMinWidth == 158

(***************************************************************************)
(* The metrics panel, line by line.  The buffer is the main box, one line  *)
(* per entry of f.buf, each ended by its newline.  writeNext inserts a     *)
(* piece of text in place of the newline of the line the cursor is in, the *)
(* text ending with a newline of its own; side[k] is the sequence of the   *)
(* pieces inserted at the end of line k.  P is the record of the package   *)
(* variables linieIndex (li), next, addNext and the line cur the byte      *)
(* cursorIndex lies in.  A metric text is the sequence of its lines, each  *)
(* line standing for its bytes; the cutting of a text to the side width    *)
(* changes the bytes of a piece, not the place it is inserted at.          *)
(***************************************************************************)
MemoryStats == <<"mem", "mem", "mem", "mem", "mem">>
GoroutineCount == <<"gor", "gor">>
HeapObjects == <<"heap", "heap">>
GCPauses == <<"gc", "gc">>
CPUUsage == <<"cpu", "cpu", "cpu">>
\* "\n" + text: strings.Split gives an empty first line
Below(text) == <<"">> \o text

PanelStart(lines) ==
    [li |-> 0, cur |-> 1, next |-> 0, addNext |-> FALSE, side |-> [k \in 1 .. lines |-> <<>>]]

\* insertIntoSlice at the end of the line of the cursor, the cursor moving
\* behind the inserted newline
insertIntoSlice(P, piece) ==
    [P EXCEPT !.side = [k \in DOMAIN @ |-> IF k = P.cur THEN Append(@[k], piece) ELSE @[k]],
              !.cur = @ + 1]

\* insertFrame(buf, frame): border is the frame; with addNext set nothing is
\* inserted and the cursor, which is at byte 0 then, moves to the second line
insertFrame(P, border) ==
    IF P.addNext THEN [P EXCEPT !.cur = @ + 1]
    ELSE [insertIntoSlice(P, border) EXCEPT !.addNext = TRUE]

\* writeNext(buf, newText), newText given by its lines
RECURSIVE writeNext(_, _, _)
RECURSIVE writeEach(_, _, _, _)
writeEach(P, lines, tl, i) ==
    IF i > Len(tl) THEN P ELSE writeEach(writeNext(P, lines, <<tl[i]>>), lines, tl, i + 1)

writeNext(P, lines, newText) ==
    IF P.li > lines - 1 THEN P
    ELSE IF P.li = 0
    THEN writeNext([insertFrame([P EXCEPT !.next = @ + 1], "top") EXCEPT !.li = @ + 1],
                   lines, newText)
    ELSE IF P.li = lines - 1
    THEN (IF P.next > 1 THEN P
          ELSE [insertFrame([P EXCEPT !.addNext = FALSE], "bottom") EXCEPT !.li = @ + 1])
    ELSE IF Len(newText) > 1 THEN writeEach(P, lines, newText, 1)
    ELSE [insertIntoSlice(P, IF newText[1] = "" THEN " " ELSE newText[1]) EXCEPT !.li = @ + 1]

\* newNext(buf)
RECURSIVE fillNext(_, _, _)
fillNext(P, lines, freeSpace) ==
    IF freeSpace = 0 THEN P ELSE fillNext(writeNext(P, lines, <<"">>), lines, freeSpace - 1)

newNext(P, lines) == [fillNext(P, lines, lines - P.li) EXCEPT !.cur = 1, !.li = 0]

\* addSysInfo: the calls of writeNext and newNext of a tier, in order; an
\* empty text stands for newNext
panelCalls(row, lines) ==
    CASE row = 3 -> <<MemoryStats, <<>>, GoroutineCount, Below(HeapObjects), Below(GCPauses),
                      <<>>, CPUUsage>>
      [] row = 2 /\ lines > 9 ->
             <<GoroutineCount, Below(GCPauses), Below(CPUUsage), <<>>, MemoryStats,
               Below(HeapObjects)>>
      [] row = 2 /\ lines <= 9 ->
             <<GoroutineCount, GCPauses, CPUUsage, <<>>, MemoryStats, HeapObjects>>
      [] row = 1 /\ lines > 19 ->
             <<GoroutineCount, Below(GCPauses), Below(CPUUsage), Below(MemoryStats),
               Below(HeapObjects)>>
      [] row = 1 /\ lines <= 19 ->
             <<GoroutineCount, HeapObjects, GCPauses, CPUUsage, MemoryStats>>
      [] OTHER -> <<>>

RECURSIVE runPanel(_, _, _, _)
runPanel(P, lines, calls, i) ==
    IF i > Len(calls) THEN newNext(P, lines)
    ELSE runPanel(IF calls[i] = <<>> THEN newNext(P, lines) ELSE writeNext(P, lines, calls[i]),
                  lines, calls, i + 1)

\* addSysInfo(buf) past the test of lines: the pieces inserted at the end of
\* each of the lines of the main box
addSysInfo(lines, row) == runPanel(PanelStart(lines), lines, panelCalls(row, lines), 1).side

\* a plausible slip: the panel is drawn whatever the minimum level
sysInfoWanted_AnyLevel(level, tw) == tw > PanelMinWidth

\* Handle: the test for calling addSysInfo
sysInfoWanted(level, tw) == level < LevelInfo /\ tw > PanelMinWidth

\* the frame with the lines of res appended, at pc next, or at "panic", and
\* the layout variables as the append left them
Appended(f, G, res, next) ==
    [f |-> [f EXCEPT !.buf = f.buf \o res.lines, !.pc = IF res.panic THEN "panic" ELSE next],
     G |-> [G EXCEPT !.activeIndent = res.activeIndent]]

HandleStep(f, G) ==
    CASE f.pc = "width" ->
             [f |-> [f EXCEPT !.pc = "first", !.goas = trimGoas(f.h.goas, Len(f.r.attrs))],
              G |-> layoutWidths(f.h.level, [G EXCEPT !.tWidth = f.tw])]
      [] f.pc = "first" ->
             [f |-> [f EXCEPT !.pc = "top"], G |-> [G EXCEPT !.firstLine = TRUE]]
      [] f.pc = "top" ->
             LET msg == [kind |-> "String", key |-> LevelLabel(f.r.level),
                         val |-> f.r.msg, kids |-> <<>>]
                 stamp == IF f.r.hasTime THEN TimestampLen ELSE 0
                 msgLen == LevelKeyLen + 1 + Len(f.r.msg)
                 extra == IF G.lWidth < msgLen + 10 + stamp \/ ~f.r.hasTime THEN "" ELSE "time"
             IN  Appended(f, G, appendAttr(attrWithInfo(msg, extra, FALSE, FALSE, FALSE), 0,
                                           LayoutOf(G)), "nofirst")
      [] f.pc = "nofirst" ->
             [f |-> [f EXCEPT !.pc = "goas"], G |-> [G EXCEPT !.firstLine = FALSE]]
      [] f.pc = "goas" ->
             Appended(f, G, appendGoas(f.goas, 1, 1, LayoutOf(G)), "attrs")
      [] f.pc = "attrs" ->
             Appended(f, G, appendGoas(<<AttrsGoa(f.r.attrs)>>, 1, 1, LayoutOf(G)), "src")
      [] f.pc = "src" ->
             IF f.h.addSource /\ f.r.hasPC
             THEN [f |-> [f EXCEPT !.pc = "source"], G |-> [G EXCEPT !.lastLine = TRUE]]
             ELSE [f |-> [f EXCEPT !.pc = "sysinfo"], G |-> G]
      [] f.pc = "source" ->
             LET shown == IF 6 + PathLen + 20 > G.lWidth
                          THEN TruncateLeftLen(PathLen, PathLen + 20 - G.lWidth + 6)
                          ELSE PathLen
                 source == [kind |-> "String", key |-> "source",
                            val |-> [i \in 1 .. shown |-> "a"], kids |-> <<>>]
             IN  Appended(f, G, appendAttr(attrWithInfo(source, "", FALSE, FALSE, FALSE), 0,
                                           LayoutOf(G)), "nolast")
      [] f.pc = "nolast" ->
             [f |-> [f EXCEPT !.pc = "sysinfo"], G |-> [G EXCEPT !.lastLine = FALSE]]
      [] f.pc = "sysinfo" ->
             IF sysInfoWanted(f.h.level, G.tWidth)
             THEN (IF Len(f.buf) < PanelMinLines
                   THEN [f |-> [f EXCEPT !.blank = f.blank + 1, !.pc = "lock", !.sysinfo = TRUE],
                         G |-> G]
                   ELSE [f |-> [f EXCEPT !.blank = f.blank + 1, !.pc = "lock", !.sysinfo = TRUE,
                                         !.panel = panelRow(G.sWidth),
                                         !.side = addSysInfo(Len(f.buf), panelRow(G.sWidth))],
                         G |-> [G EXCEPT !.lWidth = 0]])
             ELSE [f |-> [f EXCEPT !.blank = f.blank + 1, !.pc = "lock"], G |-> G]

\* the statements of Handle before h.mu.Lock(), run to the end
RECURSIVE RunLayout(_, _)
RECURSIVE RunOn(_)
RunOn(s) == RunLayout(s.f, s.G)

RunLayout(f, G) ==
    IF f.pc \in {"lock", "panic"} THEN [f |-> f, G |-> G]
    ELSE RunOn(HandleStep(f, G))

\* the frame of a call about to start
NewFrame(hid, h, r, tw, n) ==
    [pc |-> "width", hid |-> hid, h |-> h, r |-> r, tw |-> tw, n |-> n, goas |-> <<>>,
     buf |-> <<>>, blank |-> 0, panel |-> 0, sysinfo |-> FALSE, side |-> <<>>, err |-> FALSE]

(***************************************************************************)
(* The program: handlers, the logger's calls and the goroutines.           *)
(***************************************************************************)
MaxHandlers == 3
MaxCalls == 2
MaxRepeat == 3

Procs == {"g1", "g2"}
Main == "g1"

Globals ==
    [tWidth |-> tWidth, lWidth |-> lWidth, sWidth |-> sWidth, firstLine |-> firstLine,
     lastLine |-> lastLine, activeIndent |-> activeIndent]

SetGlobals(G) ==
    /\ tWidth' = G.tWidth
    /\ lWidth' = G.lWidth
    /\ sWidth' = G.sWidth
    /\ firstLine' = G.firstLine
    /\ lastLine' = G.lastLine
    /\ activeIndent' = G.activeIndent

Idle == [pc |-> "idle"]
NoCall == [kind |-> "none"]

\* NewPrettyHandler(out, opts): a handler with its own mutex
NewPrettyHandler(out, level, addSource) ==
    [goas |-> <<>>, mu |-> 1, out |-> out, level |-> level, addSource |-> addSource]

\* a plausible slip: the receiver's list is not copied into the new one
withGroupOrAttrs_NoCopy(h, goa) == [h EXCEPT !.goas = <<goa>>]

\* a plausible slip: the derived handler gets a mutex of its own
withGroupOrAttrs_OwnMutex(h, goa) ==
    [h EXCEPT !.goas = Append(h.goas, goa), !.mu = 2]

\* withGroupOrAttrs: h2 := *h, with a fresh list of len(h.goas)+1 entries
withGroupOrAttrs(h, goa) ==
    LET made == [i \in 1 .. Len(h.goas) + 1 |-> GroupGoa("")]
        copied == [i \in 1 .. Len(made) |-> IF i <= Len(h.goas) THEN h.goas[i] ELSE made[i]]
    IN  [h EXCEPT !.goas = [copied EXCEPT ![Len(copied)] = goa]]

\* Enabled(ctx, level)
Enabled(h, level) == level >= h.level

ProgramInit ==
    /\ tWidth = 0
    /\ lWidth = 0
    /\ sWidth = 0
    /\ firstLine = FALSE
    /\ lastLine = FALSE
    /\ activeIndent = {}
    /\ mutex = [m \in {1, 2} |-> "free"]
    /\ sink = <<>>
    /\ frame = [p \in Procs |-> Idle]
    /\ last = NoCall
    /\ memo = NoCall
    /\ nCalls = 0
    /\ crashed = FALSE

WrapIdle ==
    /\ wText = <<>>
    /\ wMax = 0
    /\ wIndex = 0
    /\ wResult = <<>>
    /\ wpc = "idle"

\* WithGroup(name) on handler number hid
WithGroup(hid, name) ==
    /\ ~crashed
    /\ \A p \in Procs : frame[p] = Idle
    /\ hid \in 1 .. Len(handlers)
    /\ IF name = ""
       THEN /\ last' = [kind |-> "WithGroup", recv |-> hid, goa |-> GroupGoa(name), result |-> hid]
            /\ UNCHANGED handlers
       ELSE /\ Len(handlers) < MaxHandlers
            /\ handlers' = Append(handlers, withGroupOrAttrs(handlers[hid], GroupGoa(name)))
            /\ last' = [kind |-> "WithGroup", recv |-> hid, goa |-> GroupGoa(name),
                       result |-> Len(handlers) + 1]
    /\ UNCHANGED <<gvars, mutex, sink, frame, memo, nCalls, crashed, wvars>>

\* WithAttrs(attrs) on handler number hid
WithAttrs(hid, attrs) ==
    /\ ~crashed
    /\ \A p \in Procs : frame[p] = Idle
    /\ hid \in 1 .. Len(handlers)
    /\ IF Len(attrs) = 0
       THEN /\ last' = [kind |-> "WithAttrs", recv |-> hid, goa |-> AttrsGoa(attrs), result |-> hid]
            /\ UNCHANGED handlers
       ELSE /\ Len(handlers) < MaxHandlers
            /\ handlers' = Append(handlers, withGroupOrAttrs(handlers[hid], AttrsGoa(attrs)))
            /\ last' = [kind |-> "WithAttrs", recv |-> hid, goa |-> AttrsGoa(attrs),
                       result |-> Len(handlers) + 1]
    /\ UNCHANGED <<gvars, mutex, sink, frame, memo, nCalls, crashed, wvars>>

\* the record of a finished log call
CallRecord(f, res, writes) ==
    [kind |-> "log", hid |-> f.hid, n |-> f.n, werr |-> f.err, goas |-> f.h.goas, level |-> f.h.level,
     addSource |-> f.h.addSource, r |-> f.r, tw |-> f.tw, res |-> res,
     buf |-> f.buf, blank |-> f.blank, panel |-> f.panel, sysinfo |-> f.sysinfo,
     side |-> f.side, writes |-> writes]

\* h.mu.Lock(); defer h.mu.Unlock(); _, err := h.out.Write(buf); return err
\* run by one goroutine without interruption: the Write call hands the sink
\* the buffer in two chunks
WriteAll(n, err) ==
    <<[call |-> n, part |-> "head"], [call |-> n, part |-> IF err THEN "fail" ELSE "tail"]>>

\* one log call through the logger from the only goroutine: the logger asks
\* Enabled and, if it says yes, calls Handle; keep says whether the first
\* call is kept in memo
WriteErrors == {FALSE}

Log(hid, r, tw, err, keep, limit) ==
    /\ ~crashed
    /\ \A p \in Procs : frame[p] = Idle
    /\ hid \in 1 .. Len(handlers)
    /\ nCalls < limit
    /\ nCalls' = nCalls + 1
    /\ LET h == handlers[hid]
           f0 == NewFrame(hid, h, r, tw, nCalls + 1)
       IN  IF ~Enabled(h, r.level)
           THEN /\ last' = CallRecord(f0, "dropped", 0)
                /\ UNCHANGED <<gvars, sink, crashed>>
           ELSE \E s \in {RunLayout(f0, Globals)} :
                    /\ SetGlobals(s.G)
                    /\ IF s.f.pc = "panic"
                       THEN /\ crashed' = TRUE
                            /\ last' = CallRecord(s.f, "panic", 0)
                            /\ UNCHANGED sink
                       ELSE /\ mutex[h.mu] = "free"
                            /\ sink' = sink \o WriteAll(nCalls + 1, err)
                            /\ last' = CallRecord([s.f EXCEPT !.err = err], IF err THEN "err" ELSE "ok", 1)
                            /\ UNCHANGED crashed
    /\ memo' = IF keep /\ memo = NoCall THEN last' ELSE memo
    /\ UNCHANGED <<handlers, mutex, frame, wvars>>

(***************************************************************************)
(* Inputs.                                                                 *)
(***************************************************************************)
Val == <<"a", "a">>
\* a value with a delimiter, three segments at a budget of 1
Slashed == <<"a", "/", "a">>

\* Record.AddAttrs: empty groups are not added to a record
AddAttrs(as) == SelectSeq(as, LAMBDA a : ~(a.kind = "Group" /\ a.kids = <<>>))

NewRecord(level, hasPC, as) ==
    [level |-> level, msg |-> <<"a">>, hasTime |-> TRUE, hasPC |-> hasPC, attrs |-> AddAttrs(as)]

\* a message longer than the narrowest terminal
MaxMsgLen == 8
LongMsg == [i \in 1 .. MaxMsgLen |-> "a"]

EmptyGroup == GroupAttr("e", <<>>)
Nested ==
    GroupAttr("req", <<StringAttr("id", Val),
                       GroupAttr("in", <<StringAttr("k", Val), EmptyGroup>>),
                       GroupAttr("out", <<StringAttr("op", Val)>>)>>)
Single == GroupAttr("req", <<GroupAttr("in", <<StringAttr("k", Val)>>)>>)

\* the widths the terminal probe returns; 0 is what a failed probe returns
TermWidths == {0, 20, 41, 80, 170}

GroupNames == {"", "g"}
BoundAttrs == {<<>>, <<StringAttr("k", Val)>>, <<EmptyGroup>>}

Records ==
    {NewRecord(LevelDebug, FALSE, <<>>),
     NewRecord(LevelInfo, TRUE, <<EmptyGroup>>),
     [NewRecord(LevelInfo, FALSE, <<StringAttr("url", Slashed), StringAttr("k", Val)>>)
        EXCEPT !.hasTime = FALSE],
     NewRecord(LevelDebug, FALSE, <<StringAttr("k", Val), Nested>>),
     NewRecord(LevelInfo, TRUE, <<Nested>>),
     [NewRecord(LevelInfo, FALSE, <<>>) EXCEPT !.msg = LongMsg],
     NewRecord(LevelInfo, FALSE, <<StringAttr("GROUP", Val)>>)}

(***************************************************************************)
(* SpecDerive: handlers are derived from the first one and from each       *)
(* other.                                                                  *)
(***************************************************************************)
DeriveInit ==
    /\ ProgramInit
    /\ WrapIdle
    /\ \E level \in {LevelDebug, LevelInfo} :
           handlers = <<NewPrettyHandler("stdout", level, TRUE)>>

Derive ==
    \/ \E hid \in 1 .. MaxHandlers, name \in GroupNames : WithGroup(hid, name)
    \/ \E hid \in 1 .. MaxHandlers, attrs \in BoundAttrs : WithAttrs(hid, attrs)

SpecDerive == DeriveInit /\ [][Derive]_vars

(***************************************************************************)
(* Spec: records are logged from one goroutine through handlers derived    *)
(* during set-up.                                                          *)
(***************************************************************************)
\* the handlers of the set-up: the lists are
\* <<>>, <<g>>, <<g, k>>, <<g, k, g>>, <<g, k, g, g>>, <<g, e>>
SetUp(level) ==
    LET h1 == NewPrettyHandler("stdout", level, TRUE)
        h2 == withGroupOrAttrs(h1, GroupGoa("g"))
        h3 == withGroupOrAttrs(h2, AttrsGoa(<<StringAttr("k", Val)>>))
        h4 == withGroupOrAttrs(h3, GroupGoa("g"))
        h5 == withGroupOrAttrs(h4, GroupGoa("g"))
        h6 == withGroupOrAttrs(h2, AttrsGoa(<<EmptyGroup>>))
    IN  <<h1, h2, h3, h4, h5, h6>>

Init ==
    /\ ProgramInit
    /\ WrapIdle
    /\ \E level \in {LevelDebug, LevelInfo} : handlers = SetUp(level)

LogOne ==
    \E hid \in 1 .. Len(handlers), r \in Records, tw \in TermWidths, err \in WriteErrors :
        Log(hid, r, tw, err, FALSE, MaxCalls)

Next == LogOne

Spec == Init /\ [][Next]_vars

(***************************************************************************)
(* SpecTwice: as Spec, with the first call kept so that a later call with  *)
(* the same input can be compared with it.                                 *)
(***************************************************************************)
TwiceRecords ==
    {NewRecord(LevelInfo, FALSE, <<Single>>),
     NewRecord(LevelInfo, FALSE, <<Nested>>)}

TwiceWidths == {80, 120, 170}

LogKept ==
    \E hid \in 1 .. 2, r \in TwiceRecords, tw \in TwiceWidths, err \in WriteErrors :
        Log(hid, r, tw, err, TRUE, MaxRepeat)

SpecTwice == Init /\ [][LogKept]_vars

(***************************************************************************)
(* SpecConc: Handle is called from several goroutines, through a handler   *)
(* and one derived from it; each statement group of Handle is one step.    *)
(***************************************************************************)
MaxConcCalls == 2

LayoutPcs ==
    {"width", "first", "top", "nofirst", "goas", "attrs", "src", "source", "nolast", "sysinfo"}

ConcRecords ==
    {NewRecord(LevelInfo, TRUE, <<>>),
     NewRecord(LevelInfo, FALSE, <<StringAttr("k", Val)>>)}

\* the first goroutine logs through the handler, the second through the
\* handler derived from it
HandlerOf(p) == IF p = Main THEN 1 ELSE 2

ConcWidths == {80}
ConcErrors == {FALSE, TRUE}

ConcInit ==
    /\ ProgramInit
    /\ WrapIdle
    /\ handlers = LET h1 == NewPrettyHandler("stdout", LevelDebug, TRUE)
                  IN  <<h1, withGroupOrAttrs(h1, GroupGoa("g"))>>

\* goroutine p logs r through handler hid: the logger asks Enabled and enters
\* Handle
Call(p, hid, r, tw) ==
    /\ ~crashed
    /\ frame[p] = Idle
    /\ hid \in 1 .. Len(handlers)
    /\ nCalls < MaxConcCalls
    /\ nCalls' = nCalls + 1
    /\ LET f0 == NewFrame(hid, handlers[hid], r, tw, nCalls + 1)
       IN  IF Enabled(handlers[hid], r.level)
           THEN frame' = [frame EXCEPT ![p] = f0] /\ UNCHANGED last
           ELSE last' = CallRecord(f0, "dropped", 0) /\ UNCHANGED frame
    /\ UNCHANGED <<gvars, handlers, mutex, sink, memo, crashed, wvars>>

\* goroutine p runs the statements of Handle at its pc, before the lock
Layout(p) ==
    /\ ~crashed
    /\ frame[p].pc \in LayoutPcs
    /\ \E s \in {HandleStep(frame[p], Globals)} :
           /\ SetGlobals(s.G)
           /\ frame' = [frame EXCEPT ![p] = s.f]
           /\ crashed' = (s.f.pc = "panic")
           /\ last' = IF s.f.pc = "panic" THEN CallRecord(s.f, "panic", 0) ELSE last
    /\ UNCHANGED <<handlers, mutex, sink, memo, nCalls, wvars>>

\* h.mu.Lock()
Lock(p) ==
    /\ ~crashed
    /\ frame[p].pc = "lock"
    /\ mutex[frame[p].h.mu] = "free"
    /\ mutex' = [mutex EXCEPT ![frame[p].h.mu] = p]
    /\ frame' = [frame EXCEPT ![p].pc = "write"]
    /\ UNCHANGED <<gvars, handlers, sink, last, memo, nCalls, crashed, wvars>>

\* h.out.Write(buf) is entered: the sink takes the first part of buf
Write(p) ==
    /\ ~crashed
    /\ frame[p].pc = "write"
    /\ sink' = Append(sink, [call |-> frame[p].n, part |-> "head"])
    /\ frame' = [frame EXCEPT ![p].pc = "writing"]
    /\ UNCHANGED <<gvars, handlers, mutex, last, memo, nCalls, crashed, wvars>>

\* h.out.Write(buf) returns: the sink has taken the rest of buf, or failed
WriteEnd(p, err) ==
    /\ ~crashed
    /\ frame[p].pc = "writing"
    /\ sink' = Append(sink, [call |-> frame[p].n, part |-> IF err THEN "fail" ELSE "tail"])
    /\ frame' = [frame EXCEPT ![p].pc = "ret", ![p].err = err]
    /\ UNCHANGED <<gvars, handlers, mutex, last, memo, nCalls, crashed, wvars>>

\* number of Write calls made for call n
WritesOf(n) == Cardinality({i \in 1 .. Len(sink) : sink[i].call = n /\ sink[i].part = "head"})

\* a plausible slip: the lock is released on the success path only
Return_KeepLockOnError(p) ==
    /\ ~crashed
    /\ frame[p].pc = "ret"
    /\ mutex' = IF frame[p].err THEN mutex ELSE [mutex EXCEPT ![frame[p].h.mu] = "free"]
    /\ last' = CallRecord(frame[p], IF frame[p].err THEN "err" ELSE "ok", WritesOf(frame[p].n))
    /\ frame' = [frame EXCEPT ![p] = Idle]
    /\ UNCHANGED <<gvars, handlers, sink, memo, nCalls, crashed, wvars>>

\* return err, and the deferred h.mu.Unlock()
Return(p) ==
    /\ ~crashed
    /\ frame[p].pc = "ret"
    /\ mutex' = [mutex EXCEPT ![frame[p].h.mu] = "free"]
    /\ last' = CallRecord(frame[p], IF frame[p].err THEN "err" ELSE "ok", WritesOf(frame[p].n))
    /\ frame' = [frame EXCEPT ![p] = Idle]
    /\ UNCHANGED <<gvars, handlers, sink, memo, nCalls, crashed, wvars>>

ConcNext ==
    \/ \E p \in Procs, r \in ConcRecords, tw \in ConcWidths : Call(p, HandlerOf(p), r, tw)
    \/ \E p \in Procs : Layout(p)
    \/ \E p \in Procs : Lock(p)
    \/ \E p \in Procs : Write(p)
    \/ \E p \in Procs, err \in ConcErrors : WriteEnd(p, err)
    \/ \E p \in Procs : Return(p)

SpecConc == ConcInit /\ [][ConcNext]_vars

(***************************************************************************)
(* SpecWrap: splitText run one loop iteration at a time.                   *)
(***************************************************************************)
WrapInit ==
    /\ ProgramInit
    /\ handlers = <<NewPrettyHandler("stdout", LevelDebug, TRUE)>>
    /\ wText \in Texts
    /\ wMax \in Budgets
    /\ wIndex = 0
    /\ wResult = <<>>
    /\ wpc = "loop"

\* one iteration of the for loop of splitText
SplitStep ==
    /\ wpc = "loop"
    /\ LET i == cutString(wText, wMax, wIndex)
       IN  /\ wResult' = Append(wResult, Slice(wText, wIndex, i))
           /\ IF i >= Len(wText)
              THEN wpc' = "done" /\ wIndex' = wIndex
              ELSE wpc' = "loop" /\ wIndex' = i
    /\ UNCHANGED <<wText, wMax, gvars, hvars>>

WrapNext == SplitStep

SpecWrap == WrapInit /\ [][WrapNext]_vars /\ WF_vars(SplitStep)

(***************************************************************************)
(* Claims about the handler used from one goroutine.                       *)
(***************************************************************************)
IsLog == last.kind = "log"
Written == IsLog /\ last.res \in {"ok", "err"}
IsDerive == last.kind \in {"WithGroup", "WithAttrs"}

\* number of lines of buf that satisfy Test
CountLines(buf, Test(_)) == Cardinality({i \in 1 .. Len(buf) : Test(buf[i])})

\* C3: one log call causes exactly one Write when the record's level is at
\* or above the handler's minimum level, whatever the record carries, and
\* none when it is below.
C3_OneWritePerAccepted ==
    IsLog =>
        /\ last.r.level >= last.level => last.writes = 1
        /\ last.r.level < last.level => last.writes = 0 /\ last.res = "dropped"

\* C5: WithGroup with a non-empty name and WithAttrs with a non-empty list
\* return a new handler whose list is the receiver's list followed by the one
\* new entry, the other fields being the receiver's; no handler that exists
\* is changed by the call; with an empty name or list the receiver itself is
\* returned and nothing changes.
C5_DeriveAppendsOne ==
    /\ [](IsDerive /\ last.goa # GroupGoa("") =>
            /\ last.result = Len(handlers)
            /\ last.result # last.recv
            /\ handlers[last.result] =
                 [handlers[last.recv] EXCEPT !.goas = handlers[last.recv].goas \o <<last.goa>>])
    /\ [](IsDerive /\ last.goa = GroupGoa("") => last.result = last.recv)
    /\ [][/\ \A i \in 1 .. Len(handlers) : handlers'[i] = handlers[i]
          /\ (last'.kind \in {"WithGroup", "WithAttrs"} /\ last'.goa = GroupGoa("")
                => handlers' = handlers)]_vars

\* C5 witness: two handlers were derived from the same receiver, which
\* already had a list of its own
C5_Witness ==
    /\ IsDerive
    /\ Len(handlers) = 3
    /\ handlers[2].goas # <<>>
    /\ Len(handlers[3].goas) = 2
    /\ last.recv = 2

\* the entries of goas that are kept when the record has no attributes: those
\* up to the last bound-attributes entry
KeptLen(goas) ==
    LET bound == {i \in 1 .. Len(goas) : goas[i].group = ""}
    IN  IF bound = {} THEN 0 ELSE MaxOf(bound)

\* the string attributes among the bound attributes of goas
BoundStrings(goas) ==
    {<<i, j>> \in (1 .. Len(goas)) \X (1 .. 2) :
        j <= Len(goas[i].attrs) /\ goas[i].attrs[j].kind = "String"}

\* C6: for a record with no attributes, the group markers at the tail of the
\* handler's list give no line, each marker followed by a bound-attributes
\* entry gives its line and each bound attribute gives its line or lines; the
\* handler's list is as it was.
C6_TrailingGroupsDropped ==
    Written /\ last.r.attrs = <<>> =>
        /\ CountLines(last.buf, LAMBDA l : l.form = "group") =
             Cardinality({i \in 1 .. KeptLen(last.goas) : last.goas[i].group # ""})
        /\ CountLines(last.buf, LAMBDA l : l.form \in {"bracket", "item"} /\ l.key # sameSymbol) =
             Cardinality(BoundStrings(last.goas))
        /\ handlers[last.hid].goas = last.goas

\* C6 witness: a record without attributes was written through the handler
\* whose list is <<g, k, g, g>>
C6_Witness ==
    /\ Written
    /\ last.r.attrs = <<>>
    /\ Len(last.goas) = 4
    /\ last.goas[4].group # ""
    /\ last.goas[3].group # ""
    /\ CountLines(last.buf, LAMBDA l : l.form = "group") = 1

\* all entries of the call are groups without attributes
OnlyEmptyGroups ==
    /\ last.r.attrs = <<>>
    /\ \A i \in 1 .. Len(last.goas) :
           \/ last.goas[i].group # ""
           \/ \A j \in 1 .. Len(last.goas[i].attrs) :
                  last.goas[i].attrs[j].kind = "Group" /\ last.goas[i].attrs[j].kids = <<>>

\* C7: a call whose only entries are groups without attributes is rendered
\* as a call without entries: no group line, header line or item line.
C7_EmptyGroupsElided ==
    Written /\ OnlyEmptyGroups =>
        \A i \in 1 .. Len(last.buf) : last.buf[i].form \in {"first", "last"}

\* the input of a call
CallInput(c) == <<c.hid, c.r, c.tw>>

\* C8: a record rendered twice through the same handler at the same probed
\* width gives the same lines, whatever was rendered in between.
C8_SameInputSameOutput ==
    /\ memo.kind = "log" /\ IsLog
    /\ memo.res \in {"ok", "err"} /\ last.res \in {"ok", "err"}
    /\ CallInput(memo) = CallInput(last)
    => memo.buf = last.buf

(***************************************************************************)
(* Claims about the text wrapper, checked under SpecWrap.                  *)
(***************************************************************************)

\* C9: for every text S and budget M > 0 the segments of splitText(S, M),
\* concatenated in order, are S (at every iteration the segments so far are
\* the bytes before the break index), and the empty text gives one empty
\* segment.
C9_RoundTrip ==
    wMax > 0 =>
        /\ wpc = "loop" => Concat(wResult) = Slice(wText, 0, wIndex)
        /\ wpc = "done" => Concat(wResult) = wText
        /\ wpc = "done" /\ wText = <<>> => wResult = << <<>> >>

\* C9 witness: a text holding a delimiter was split into three segments
C9_Witness ==
    /\ wpc = "done"
    /\ wMax > 0
    /\ Len(wResult) = 3
    /\ \E i \in 1 .. Len(wText) : wText[i] \in Delims

\* C10: splitText terminates for every text and every budget; with a budget
\* > 0 an iteration that does not return advances the break index by at least
\* one byte, and it returns only when the remainder fits in one window; with
\* a budget <= 0 the result is the whole text as one segment.
C10_Terminates ==
    /\ <>(wpc = "done")
    /\ [][wMax > 0 /\ wpc' = "loop" => wIndex' >= wIndex + 1]_vars
    /\ [][wMax > 0 /\ wpc = "loop" /\ wpc' = "done" => Len(wText) - wIndex <= wMax]_vars
    /\ [](wpc = "done" /\ wMax <= 0 => wResult = <<wText>>)

\* C10 witness: a run with a positive budget that took three iterations
C10_Witness ==
    /\ wpc = "done"
    /\ wMax > 0
    /\ Len(wResult) = 3 /\ wMax = 1


(***************************************************************************)
(* Claims about concurrent Handle calls (SpecConc).                        *)
(***************************************************************************)
InWrite(p) == frame[p].pc = "writing"
InHandle(p) == frame[p].pc \in LayoutPcs \cup {"lock", "write", "writing", "ret"}

\* C1: Handle may run on several goroutines at once; handlers that write to
\* the same sink use the same mutex, each event reaches the sink through one
\* Write call made while that mutex is held, and so the parts of one event
\* are never separated in the sink by parts of another event.
C1_NoInterleaving ==
    /\ \A i \in 1 .. Len(handlers), j \in 1 .. Len(handlers) :
           handlers[i].out = handlers[j].out => handlers[i].mu = handlers[j].mu
    /\ \A p \in Procs : InWrite(p) => mutex[frame[p].h.mu] = p
    /\ \A p \in Procs, q \in Procs : InWrite(p) /\ InWrite(q) => p = q
    /\ \A i \in 1 .. Len(sink) :
           /\ sink[i].part = "head" /\ i < Len(sink) =>
                  sink[i + 1].call = sink[i].call /\ sink[i + 1].part # "head"
           /\ sink[i].part # "head" =>
                  i > 1 /\ sink[i - 1].call = sink[i].call /\ sink[i - 1].part = "head"
    /\ \A i \in 1 .. Len(sink), j \in 1 .. Len(sink) :
           sink[i].part = "head" /\ sink[j].part = "head" /\ sink[i].call = sink[j].call => i = j

\* one goroutine is inside Write through one handler while another, logging
\* through the other handler, waits for the same mutex
C1_Witness ==
    \E p \in Procs, q \in Procs :
        /\ p # q
        /\ InWrite(p)
        /\ frame[q].pc = "lock"
        /\ frame[p].hid # frame[q].hid
        /\ frame[p].h.mu = frame[q].h.mu

\* C2: from its first layout step to the end of its write a Handle call is
\* the only one reading or writing the layout state.
C2_LayoutExclusive ==
    \A p \in Procs, q \in Procs :
        p # q /\ InHandle(p) => frame[q].pc \notin LayoutPcs

\* C4: Handle returns the error of its one Write call, makes no second
\* attempt, and holds no mutex once it has returned.
C4_ErrorReturned ==
    /\ IsLog /\ last.res \in {"ok", "err"} =>
           /\ (last.res = "err") = last.werr
           /\ last.writes = 1
    /\ \A p \in Procs : ~InHandle(p) => \A m \in DOMAIN mutex : mutex[m] # p
    /\ \A p \in Procs : frame[p].pc \in LayoutPcs \cup {"lock"} =>
           \A m \in DOMAIN mutex : mutex[m] # p

\* a call has returned the write error, and a later call has taken the mutex
\* and written
C4_Witness ==
    /\ Len(sink) >= 3
    /\ sink[2].part = "fail"
    /\ sink[3].part = "head"
    /\ \E p \in Procs : frame[p].pc = "writing" /\ mutex[frame[p].h.mu] = p
    /\ \E p \in Procs : frame[p] = Idle
    /\ IsLog /\ last.res = "err"


(***************************************************************************)
(* Further claims about the text wrapper (SpecWrap).                       *)
(***************************************************************************)
\* positions (1-based, within the window of wMax bytes that starts after
\* wIndex) that hold a delimiter
WindowBreaks ==
    {k \in 1 .. wMax : wIndex + k <= Len(wText) /\ wText[wIndex + k] \in Delims}

\* C13: with a budget M > 0, a segment that is not the last one ends right
\* after the last delimiter among the next M bytes, or is the next M bytes
\* when there is none; the last segment is the remainder and is produced
\* exactly when at most M bytes remain; every segment of a non-empty text
\* has between 1 and M bytes.
C13_BreakRule ==
    /\ [][wMax > 0 /\ wpc = "loop" =>
            LET seg == wResult'[Len(wResult')]
            IN  IF Len(wText) - wIndex <= wMax
                THEN wpc' = "done" /\ seg = SubSeq(wText, wIndex + 1, Len(wText))
                ELSE /\ wpc' = "loop"
                     /\ seg = SubSeq(wText, wIndex + 1,
                                     wIndex + (IF WindowBreaks = {} THEN wMax
                                               ELSE MaxOf(WindowBreaks)))]_vars
    /\ [](wMax > 0 /\ wText # <<>> =>
            \A k \in 1 .. Len(wResult) : Len(wResult[k]) >= 1 /\ Len(wResult[k]) <= wMax)

\* C13 witness: a window of two bytes holding two delimiters was cut after
\* the second, and the remaining byte made the last segment
C13_Witness ==
    /\ wpc = "done"
    /\ wMax = 2
    /\ Len(wText) = 3
    /\ wText[1] \in Delims /\ wText[2] \in Delims
    /\ Len(wResult) = 2
    /\ Len(wResult[1]) = 2

(***************************************************************************)
(* Further claims about single calls of Handle (Spec).                     *)
(***************************************************************************)
\* C12: when the terminal probe fails, the event is laid out with a width
\* greater than 0 and Handle completes with its write.
C12_ProbeFailureDefault ==
    IsLog /\ last.tw = 0 /\ last.res # "dropped" =>
        /\ last.res \in {"ok", "err"}
        /\ \A i \in 1 .. Len(last.buf) : last.buf[i].width > 0


\* alignValues and appendAttr: the columns a rendered line takes on the
\* terminal, escape sequences stripped: the two border glyphs and the text,
\* indented, made even, and filled to the layout width when shorter
LineWidth(l) ==
    IF l.form = "last" THEN 2 + (l.width - 7)
    ELSE LET counted == (IF l.lvl > 0 THEN 6 * l.lvl + 4 - 4 ELSE 0) + 2 + l.text
             even == counted + (counted % 2)
         IN  2 + MaxOf({even, l.width}) - EscapeWidth

\* C11: with a terminal of W columns, 20 <= W <= 200, every line of the
\* rendered event takes at most W columns, give or take one for the border.
C11_WidthBound ==
    Written /\ last.tw >= 20 /\ last.tw <= 200 =>
        \A i \in 1 .. Len(last.buf) : LineWidth(last.buf[i]) <= last.tw + 1


(***************************************************************************)
(* The lines an event is expected to give, entry by entry: the top border, *)
(* the entries of the handler's list, the record's attributes, the source  *)
(* line.  Each expected line is its kind, key, depth and position tags;    *)
(* the depth of the entries after a group marker is one more than the      *)
(* marker's.                                                               *)
(***************************************************************************)
Expect(kind, key, lvl, isFirst, isLast, top) ==
    [kind |-> kind, key |-> key, lvl |-> lvl, first |-> isFirst, last |-> isLast, top |-> top]

RECURSIVE ExpectAttr(_, _, _, _, _)
RECURSIVE ExpectKids(_, _, _)
ExpectKids(kids, i, lvl) ==
    IF i > Len(kids) THEN <<>>
    ELSE ExpectAttr(kids[i], lvl, i = 1, i = Len(kids), FALSE) \o ExpectKids(kids, i + 1, lvl)

ExpectAttr(a, lvl, isFirst, isLast, top) ==
    IF a.kind = "Group"
    THEN (IF a.kids = <<>> THEN <<>>
          ELSE <<Expect("attr", a.key, lvl, isFirst, isLast, top)>> \o ExpectKids(a.kids, 1, lvl + 1))
    ELSE <<Expect("attr", a.key, lvl, isFirst, isLast, top)>>

RECURSIVE ExpectTop(_, _, _)
ExpectTop(attrs, i, lvl) ==
    IF i > Len(attrs) THEN <<>>
    ELSE ExpectAttr(attrs[i], lvl, FALSE, FALSE, TRUE) \o ExpectTop(attrs, i + 1, lvl)

\* number of group markers among the first n entries of goas
MarkersIn(goas, n) == Cardinality({i \in 1 .. n : goas[i].group # ""})

RECURSIVE ExpectGoas(_, _, _)
ExpectGoas(goas, i, n) ==
    IF i > n THEN <<>>
    ELSE (IF goas[i].group # ""
          THEN <<Expect("group", "GROUP", MarkersIn(goas, i - 1), FALSE, FALSE, TRUE)>>
          ELSE ExpectTop(goas[i].attrs, 1, MarkersIn(goas, i - 1)))
         \o ExpectGoas(goas, i + 1, n)

\* the expected lines of the call c
ExpectedLines(c) ==
    <<Expect("first", LevelLabel(c.r.level), 0, FALSE, FALSE, TRUE)>>
    \o ExpectGoas(c.goas, 1, IF c.r.attrs = <<>> THEN KeptLen(c.goas) ELSE Len(c.goas))
    \o ExpectTop(c.r.attrs, 1,
                 MarkersIn(c.goas, IF c.r.attrs = <<>> THEN KeptLen(c.goas) ELSE Len(c.goas)))
    \o (IF c.addSource /\ c.r.hasPC THEN <<Expect("last", "source", 0, FALSE, FALSE, TRUE)>>
        ELSE <<>>)

\* the lines of a rendered buffer, the continuation lines of wrapped values
\* left out, in the same shape
SeenLine(l) ==
    Expect(IF l.form \in {"item", "bracket", "header"} THEN "attr" ELSE l.form,
           l.key, l.lvl, l.firstChild, l.lastChild,
           ~(l.firstChild \/ l.innerChild \/ l.lastChild))

SeenLines(c) ==
    LET kept == SelectSeq(c.buf, LAMBDA l : l.key # sameSymbol)
    IN  [i \in 1 .. Len(kept) |-> SeenLine(kept[i])]

\* C14: the lines of an event are the top border, then the blocks of the
\* entries of the handler's list in the order of the WithGroup/WithAttrs
\* calls, then the blocks of the record's attributes in their order, a
\* group's children after its header in their order, then the source line if
\* there is one, then one blank line; entries with equal keys each give their
\* block.
C14_OutputOrder ==
    Written =>
        /\ LET seen == SeenLines(last)
               want == ExpectedLines(last)
           IN  /\ Len(seen) = Len(want)
               /\ \A i \in 1 .. Len(seen) :
                      /\ (seen[i].kind \in {"first", "last"}) = (want[i].kind \in {"first", "last"})
                      /\ seen[i].kind \in {"first", "last"} => seen[i].kind = want[i].kind
                      /\ seen[i].key = want[i].key
        /\ last.blank = 1

\* C14 witness: the handler's list binds k and the record carries k again and
\* a group with children
C14_Witness ==
    /\ Written
    /\ Len(last.goas) = 2 /\ last.goas[2].attrs # <<>> /\ last.goas[2].attrs[1].key = "k"
    /\ Len(last.r.attrs) = 2 /\ last.r.attrs[1].key = "k"
    /\ Cardinality({i \in 1 .. Len(last.buf) : last.buf[i].key = "k"
                                               /\ last.buf[i].lvl = 0}) = 2


C16_BottomBorder ==
    /\ (IsLog /\ last.res # "dropped") =>
         LET n == Len(last.buf)
             bottoms == {i \in 1 .. n : last.buf[i].form = "last"}
         IN  /\ (bottoms # {}) = (last.addSource /\ last.r.hasPC)
             /\ bottoms \subseteq {n}
             /\ \A i \in bottoms : last.buf[i].lvl = 0 /\ last.buf[i].key = "source"
    /\ lastLine => \E p \in Procs : frame[p] # Idle /\ frame[p].pc \in {"source", "nolast"}


\* C17: every line of an event is rendered at its expected depth: an entry
\* after a WithGroup marker (a later entry of the handler's list or an
\* attribute of the record) one deeper than the marker, a child of a group
\* attribute at depth d at depth d + 1 after the group's header, and the
\* group's later siblings at depth d again.
C17_DepthOfEntries ==
    Written =>
        LET seen == SeenLines(last)
            want == ExpectedLines(last)
        IN  /\ Len(seen) = Len(want)
            /\ \A i \in 1 .. Len(seen) : seen[i].lvl = want[i].lvl


\* C18: of the n >= 1 children of a group, child 0 and only child 0 is tagged
\* first, child n-1 and only child n-1 is tagged last (an only child both),
\* the children between carry neither tag; top-level entries carry no
\* position tag.
C18_PositionTags ==
    Written =>
        LET seen == SeenLines(last)
            want == ExpectedLines(last)
        IN  /\ Len(seen) = Len(want)
            /\ \A i \in 1 .. Len(seen) :
                   /\ seen[i].first = want[i].first
                   /\ seen[i].last = want[i].last
                   /\ want[i].top => seen[i].top

\* C18 witness: a group with a first, an interior and a last child, and a
\* group with an only child, have been rendered
C18_Witness ==
    /\ Written
    /\ \E i, j, k, o \in 1 .. Len(last.buf) :
          /\ i < j /\ j < k /\ k < o
          /\ last.buf[i].key = "id" /\ last.buf[i].firstChild /\ ~last.buf[i].lastChild
          /\ last.buf[j].key = "in" /\ ~last.buf[j].firstChild /\ ~last.buf[j].lastChild
          /\ last.buf[k].key = "out" /\ ~last.buf[k].firstChild /\ last.buf[k].lastChild
          /\ last.buf[o].key = "op" /\ last.buf[o].firstChild /\ last.buf[o].lastChild


(***************************************************************************)
(* The columns in which a line is expected to show a vertical bar, line by *)
(* line in the order of ExpectedLines: the descendants of a group at depth *)
(* d >= 1 show a bar in column d exactly when the group has a later        *)
(* sibling.  Top-level entries are taken at depth 0, where they are        *)
(* rendered.                                                               *)
(***************************************************************************)
RECURSIVE ExpectBarsAttr(_, _, _, _)
RECURSIVE ExpectBarsKids(_, _, _, _)
ExpectBarsKids(kids, i, lvl, bars) ==
    IF i > Len(kids) THEN <<>>
    ELSE ExpectBarsAttr(kids[i], lvl, i < Len(kids), bars) \o ExpectBarsKids(kids, i + 1, lvl, bars)

ExpectBarsAttr(a, lvl, later, bars) ==
    IF a.kind = "Group"
    THEN (IF a.kids = <<>> THEN <<>>
          ELSE <<bars>> \o ExpectBarsKids(a.kids, 1, lvl + 1,
                                          IF later /\ lvl >= 1 THEN bars \cup {lvl} ELSE bars))
    ELSE <<bars>>

RECURSIVE ExpectBarsTop(_, _)
ExpectBarsTop(attrs, i) ==
    IF i > Len(attrs) THEN <<>>
    ELSE ExpectBarsAttr(attrs[i], 0, FALSE, {}) \o ExpectBarsTop(attrs, i + 1)

RECURSIVE ExpectBarsGoas(_, _, _)
ExpectBarsGoas(goas, i, n) ==
    IF i > n THEN <<>>
    ELSE (IF goas[i].group # "" THEN <<{}>> ELSE ExpectBarsTop(goas[i].attrs, 1))
         \o ExpectBarsGoas(goas, i + 1, n)

ExpectedBars(c) ==
    <<{}>>
    \o ExpectBarsGoas(c.goas, 1, IF c.r.attrs = <<>> THEN KeptLen(c.goas) ELSE Len(c.goas))
    \o ExpectBarsTop(c.r.attrs, 1)
    \o (IF c.addSource /\ c.r.hasPC THEN <<{}>> ELSE <<>>)

\* the bars of the lines of a rendered buffer, continuation lines left out
SeenBars(c) ==
    LET kept == SelectSeq(c.buf, LAMBDA l : l.key # sameSymbol)
    IN  [i \in 1 .. Len(kept) |-> kept[i].bars]

\* C19: the lines of the descendants of a nested group at depth d show a bar
\* in column d exactly when the group has a later sibling, whether the group
\* is the first or an interior child; and when an event has been rendered,
\* the last child of every depth included, no continuation flag is left set.
C19_Continuation ==
    Written =>
        /\ SeenBars(last) = ExpectedBars(last)
        /\ activeIndent = {}


\* the string attributes of a call, as pairs of key and value
RECURSIVE StringsIn(_)
StringsIn(attrs) ==
    UNION {IF attrs[i].kind = "Group" THEN StringsIn(attrs[i].kids)
           ELSE IF attrs[i].kind = "String" THEN {<<attrs[i].key, attrs[i].val>>}
           ELSE {} : i \in 1 .. Len(attrs)}

StringsOf(c) == StringsIn(c.r.attrs) \cup UNION {StringsIn(c.goas[i].attrs) : i \in 1 .. Len(c.goas)}

\* the test of appendAttr for handing a string attribute to the wrapper
Wrapped(key, val, lvl, lw) == ColorLen + KeyLen(key) + 2 + QuotedLen(val) > lw - 35 - lvl * 10

\* C20: a string attribute wrapped into n segments gives exactly n item
\* lines, in segment order, the first with the attribute's key and the others
\* with the continuation placeholder; every one of these lines, the last
\* included, is ended by exactly one newline, so the following entry starts
\* on its own line.
C20_WrappedBlock ==
    Written =>
        \A i \in 1 .. Len(last.buf) :
            LET l == last.buf[i]
            IN  /\ l.nl = 1
                /\ l.key = sameSymbol => i > 1 /\ last.buf[i - 1].form = "item"
                /\ (l.form \in {"item", "bracket"} /\ l.key # sameSymbol) =>
                     \E p \in StringsOf(last) :
                        /\ p[1] = l.key
                        /\ LET segs == IF Wrapped(l.key, p[2], l.lvl, l.width)
                                       THEN splitText(p[2], wrapBudget(l.width, KeyLen(l.key), l.lvl))
                                       ELSE <<p[2]>>
                               n == Len(segs)
                           IN  /\ i + n - 1 <= Len(last.buf)
                               /\ \A m \in 1 .. n :
                                      /\ last.buf[i + m - 1].val = segs[m]
                                      /\ last.buf[i + m - 1].key = IF m = 1 THEN l.key ELSE sameSymbol
                                      /\ Wrapped(l.key, p[2], l.lvl, l.width) =>
                                             last.buf[i + m - 1].form = "item"
                               /\ i + n <= Len(last.buf) => last.buf[i + n].key # sameSymbol

\* C20 witness: a value has been wrapped into three segments and another
\* entry follows it
C20_Witness ==
    /\ Written
    /\ \E i \in 1 .. Len(last.buf) :
          /\ i + 3 <= Len(last.buf)
          /\ last.buf[i].key = "url" /\ last.buf[i].val = <<"a">>
          /\ last.buf[i + 1].key = sameSymbol /\ last.buf[i + 1].val = <<"/">>
          /\ last.buf[i + 2].key = sameSymbol /\ last.buf[i + 2].val = <<"a">>
          /\ last.buf[i + 3].key = "k"


\* C21: whenever the layout hands a string attribute to the wrapper, the
\* budget it passes to splitText is greater than 0, whatever the layout
\* width, the key and the depth.
C21_BudgetPositive ==
    Written =>
        \A i \in 1 .. Len(last.buf) :
            LET l == last.buf[i]
            IN  (l.form \in {"item", "bracket"} /\ l.key # sameSymbol) =>
                    \A p \in StringsOf(last) :
                        (p[1] = l.key /\ Wrapped(l.key, p[2], l.lvl, l.width)) =>
                            wrapBudget(l.width, KeyLen(l.key), l.lvl) > 0


\* the layout widths a call can assign from the terminal width tw it probed:
\* the width itself or the value of one of the wide-terminal tiers
FreshWidths(tw) == {tw, 100, tw - 75 - 5, tw \div 2}

\* C22: the layout width an event is rendered with is one assigned in that
\* call from the terminal width the call probed, for every terminal width and
\* every minimum level; it is never a value left by an earlier call or by the
\* metrics panel.
C22_FreshWidth ==
    Written => \A i \in 1 .. Len(last.buf) : last.buf[i].width \in FreshWidths(last.tw)


\* C23: addSysInfo is called for an event exactly when the handler's minimum
\* level is below Info and the probed terminal width is above 158; in every
\* other case the buffer written is the lines of the main box, nothing
\* inserted, and one blank line.
C23_PanelInvoked ==
    Written =>
        /\ last.sysinfo = (last.level < LevelInfo /\ last.tw > 158)
        /\ ~last.sysinfo => last.side = <<>> /\ last.panel = 0 /\ last.blank = 1

\* C23 witness: a verbose handler on a wide terminal has drawn the panel
C23_Witness ==
    /\ Written
    /\ last.sysinfo
    /\ last.level = LevelDebug /\ last.tw = 170
    /\ last.panel = 1


\* C24: when the panel is added, the buffer of the main box is an unchanged
\* prefix of the buffer written: nothing is inserted at or before the end of
\* any line of the main box, and every piece of the panel comes after the
\* box's last line.
C24_PanelAfterBox ==
    (Written /\ last.panel > 0) => \A k \in 1 .. Len(last.side) : last.side[k] = <<>>


\* the position flags of a line: firstChild, innerChild, lastChild
FlagsOf(l) == <<l.firstChild, l.innerChild, l.lastChild>>

FlagCombinations ==
    {<<FALSE, FALSE, FALSE>>, <<TRUE, FALSE, FALSE>>, <<TRUE, FALSE, TRUE>>,
     <<FALSE, TRUE, FALSE>>, <<FALSE, TRUE, TRUE>>}

\* C25: every rendered attribute carries one of five combinations of the
\* position flags: none, first, first and last, inner, inner and last;
\* firstChild and innerChild are never set together and lastChild is never
\* set alone, so a line is laid out by a branch for lastChild alone (the
\* centred one) only with firstChild and innerChild both false.
C25_FlagCombinations ==
    Written =>
        \A i \in 1 .. Len(last.buf) :
            /\ FlagsOf(last.buf[i]) \in FlagCombinations
            /\ last.buf[i].fill = "center" =>
                   ~last.buf[i].firstChild /\ ~last.buf[i].innerChild

\* C25 witness: one event whose lines carry all five combinations
C25_Witness ==
    /\ Written
    /\ {FlagsOf(last.buf[i]) : i \in 1 .. Len(last.buf)} = FlagCombinations


\* C26: the lines in group-marker form are exactly the lines of the entries
\* made by WithGroup: no attribute of the record and no attribute bound by
\* WithAttrs is rendered in that form, and no marker is rendered as an
\* ordinary line.
C26_MarkerForm ==
    Written =>
        LET seen == SeenLines(last)
            want == ExpectedLines(last)
        IN  /\ Len(seen) = Len(want)
            /\ \A i \in 1 .. Len(seen) : (seen[i].kind = "group") = (want[i].kind = "group")

====
